---- MODULE Spec2Model ----
(***************************************************************************)
(* A model of the kargo developer-environment tool (konflux-ci/kargo):     *)
(*   - the background port-forward process manager (PID files, liveness    *)
(*     probe, start / stop / status),                                      *)
(*   - the readiness polls (60 one-second attempts),                       *)
(*   - the orchestration verbs of the cluster (Kind) and of the add-ons    *)
(*     (CertManager, ArgoCD),                                              *)
(*   - the cluster existence check on the text `kind get clusters` prints. *)
(* Text is a sequence of one-character strings, so that formatting         *)
(* (fmt.Sprintf), trimming (strings.TrimSpace) and parsing (strconv.Atoi)  *)
(* are computed, not assumed.                                              *)
(***************************************************************************)
EXTENDS Integers, Sequences, FiniteSets, TLC

VARIABLES
    files,      \* the PID files: path -> file state
    procs,      \* the operating system's process table: pid -> process
    nextPid,    \* the pid the next spawned process gets
    last,       \* the last port-forward call: its arguments, result, effects
    clusters,   \* the kind clusters that exist, in the order kind lists them
    runs,       \* the verbs run so far: the commands each invoked, its result
    poll,       \* a readiness poll: loop counter, probes made, result
    releases,   \* the helm releases installed in the cluster
    run,        \* the `mage` invocation under way: its verb, commands, result
    callers,    \* concurrent users of the port-forward manager: their position
    listing     \* a call of ClusterExists: the name, kind's output, the result

pfVars == <<files, procs, nextPid, last>>
kindVars == <<clusters, runs>>
pollVars == <<poll>>
verbVars == <<releases, run>>
raceVars == <<callers>>
listVars == <<listing>>
vars == <<files, procs, nextPid, last, clusters, runs, poll, releases, run,
          callers, listing>>

----------------------------------------------------------------------------
(* Bounds of the model.                                                    *)

\* The largest pid the process table holds; spawning stops there.
MaxPid == 10

\* How many verbs one behaviour runs.
MaxRuns == 3

----------------------------------------------------------------------------
(* Text.                                                                   *)

Digits == <<"0", "1", "2", "3", "4", "5", "6", "7", "8", "9">>

IsDigit(c) == \E d \in 1..10 : Digits[d] = c

DigitVal(c) == (CHOOSE d \in 1..10 : Digits[d] = c) - 1

\* unicode.IsSpace on the characters the model uses.
IsSpace(c) == c \in {" ", "\n", "\t", "\r"}

RECURSIVE TrimLeft(_)
TrimLeft(s) ==
    IF s # <<>> /\ IsSpace(Head(s)) THEN TrimLeft(Tail(s)) ELSE s

RECURSIVE TrimRight(_)
TrimRight(s) ==
    IF s # <<>> /\ IsSpace(s[Len(s)])
    THEN TrimRight(SubSeq(s, 1, Len(s) - 1))
    ELSE s

\* strings.TrimSpace: leading and trailing white space removed.
TrimSpace(s) == TrimRight(TrimLeft(s))

\* fmt.Sprintf("%d", n): the decimal text of n.
RECURSIVE Itoa(_)
Itoa(n) ==
    IF n < 0 THEN <<"-">> \o Itoa(0 - n)
    ELSE IF n < 10 THEN <<Digits[n + 1]>>
    ELSE Itoa(n \div 10) \o <<Digits[(n % 10) + 1]>>

RECURSIVE DigitsValue(_, _)
DigitsValue(s, acc) ==
    IF s = <<>> THEN acc
    ELSE DigitsValue(Tail(s), acc * 10 + DigitVal(Head(s)))

\* Atoi as C's atoi reads: the leading digits, whatever follows them, and 0
\* when there are none.
AtoiLenient(s) ==
    LET n == CHOOSE m \in 0..Len(s) :
                 /\ \A i \in 1..m : IsDigit(s[i])
                 /\ m = Len(s) \/ ~IsDigit(s[m + 1])
    IN  [ok |-> TRUE, val |-> DigitsValue(SubSeq(s, 1, n), 0)]

\* strconv.Atoi: an optional sign, then one or more decimal digits and
\* nothing else.  [ok |-> FALSE] is its *NumError.
Atoi(s) ==
    LET signed == s # <<>> /\ Head(s) \in {"+", "-"}
        body == IF signed THEN Tail(s) ELSE s
        good == body # <<>> /\ \A i \in 1..Len(body) : IsDigit(body[i])
    IN  IF ~good THEN [ok |-> FALSE, val |-> 0]
        ELSE [ok |-> TRUE,
              val |-> IF signed /\ Head(s) = "-"
                      THEN 0 - DigitsValue(body, 0)
                      ELSE DigitsValue(body, 0)]

----------------------------------------------------------------------------
(* The port-forward process manager: PID files and the process table.      *)

\* The (service, namespace) keys the calls are made with.  Kubernetes names
\* may hold "-", and the file name joins the two names with "-": the keys
\* (a, b-c) and (a-b, c) are there to share a PID file.
Services == {<<"a">>, <<"a", "-", "b">>}
Namespaces == {<<"c">>, <<"b", "-", "c">>}
Keys == {k \in Services \X Namespaces : Len(k[1]) + Len(k[2]) <= 4}
NoKey == <<>>

\* filepath.Join(xdg.DataHome, "kargo",
\*               fmt.Sprintf("port-forward-%s-%s.pid", service, namespace))
\* The directory and the fixed parts of the name are one element each; the
\* two names are spelled out, a character an element.
PortForwardPIDFile(service, namespace) ==
    <<"$XDG_DATA_HOME/kargo/", "port-forward-">>
        \o service \o <<"-">> \o namespace \o <<".pid">>

PidFileOf(k) == PortForwardPIDFile(k[1], k[2])

Paths == {PidFileOf(k) : k \in Keys}

\* What is at a path: nothing, a regular file with its bytes, or something
\* that exists but can be neither read nor written as a file (a directory,
\* a file of another user).  A regular file can be read (os.ReadFile) and
\* removed (os.Remove, whose error the code drops).
Absent == [kind |-> "absent", data |-> <<>>]
Blocked == [kind |-> "blocked", data |-> <<>>]
Regular(d) == [kind |-> "file", data |-> d]

\* Two processes that have nothing to do with the tool run before it does:
\* one leads a process group, the other is a member of that group.  The
\* operating system hands out the pids after theirs, in order.
Unrelated == <<7, 8>>
GroupLeaderPid == Unrelated[1]
GroupMemberPid == Unrelated[2]
FirstPid == GroupMemberPid + 1
GonePid == GroupLeaderPid - 2       \* a pid no process has

Pids == GroupLeaderPid..MaxPid

NoProc == [alive |-> FALSE, key |-> NoKey, pgid |-> 0]

\* kill(2) with a signal that is not caught: whether target names anything.
\* target > 0 is one process, target < -1 the process group -target.
Signalled(target, ps) ==
    IF target > 0 THEN {p \in Pids : p = target /\ ps[p].alive}
    ELSE IF target < -1 THEN {p \in Pids : ps[p].alive /\ ps[p].pgid = 0 - target}
    ELSE {}

\* syscall.Kill(target, sig) returns nil.
KillOK(target, ps) == Signalled(target, ps) # {}

\* The processes SIGTERM or SIGKILL reached are gone afterwards.
Terminate(target, ps) ==
    [p \in Pids |-> IF p \in Signalled(target, ps)
                    THEN [ps[p] EXCEPT !.alive = FALSE]
                    ELSE ps[p]]

\* The probe taking os.FindProcess's success for liveness.
ProbeFindsProcess(pid, ps) == pid # 0 /\ pid # -1

\* os.FindProcess(pid) then process.Signal(syscall.Signal(0)) returns nil.
\* On Unix FindProcess always succeeds; Signal refuses pid 0 and pid -1 and
\* otherwise is kill(pid, 0).
ProbeOK(pid, ps) == pid # 0 /\ pid # -1 /\ KillOK(pid, ps)

\* IsPortForwardRunning without the os.Remove of a stale PID file.
IsPortForwardRunningKeepsFile(service, namespace, fs, ps) ==
    LET f == fs[PortForwardPIDFile(service, namespace)]
        parsed == Atoi(TrimSpace(f.data))
    IN  IF f.kind = "absent"
        THEN [running |-> FALSE, pid |-> 0, err |-> "", files |-> fs,
              sigs |-> <<>>]
        ELSE IF f.kind = "blocked"
        THEN [running |-> FALSE, pid |-> 0, err |-> "failed to read PID file",
              files |-> fs, sigs |-> <<>>]
        ELSE IF ~parsed.ok
        THEN [running |-> FALSE, pid |-> 0, err |-> "failed to parse PID",
              files |-> fs, sigs |-> <<>>]
        ELSE IF ~(parsed.val \in Pids /\ ps[parsed.val].alive)
        THEN [running |-> FALSE, pid |-> 0, err |-> "", files |-> fs,
              sigs |-> <<<<parsed.val, "0">>>>]
        ELSE [running |-> TRUE, pid |-> parsed.val, err |-> "", files |-> fs,
              sigs |-> <<<<parsed.val, "0">>>>]

\* IsPortForwardRunning(service, namespace) on the files fs and the process
\* table ps: its three results, the files it leaves and the signals it sent.
IsPortForwardRunning(service, namespace, fs, ps) ==
    LET pidFile == PortForwardPIDFile(service, namespace)
        f == fs[pidFile]
        parsed == Atoi(TrimSpace(f.data))
        pid == parsed.val
    IN  IF f.kind = "absent"
        THEN [running |-> FALSE, pid |-> 0, err |-> "", files |-> fs,
              sigs |-> <<>>]
        ELSE IF f.kind = "blocked"
        THEN [running |-> FALSE, pid |-> 0, err |-> "failed to read PID file",
              files |-> fs, sigs |-> <<>>]
        ELSE IF ~parsed.ok
        THEN [running |-> FALSE, pid |-> 0, err |-> "failed to parse PID",
              files |-> fs, sigs |-> <<>>]
        ELSE IF ~ProbeOK(pid, ps)
        THEN [running |-> FALSE, pid |-> 0, err |-> "",
              files |-> [fs EXCEPT ![pidFile] = Absent],
              sigs |-> <<<<pid, "0">>>>]
        ELSE [running |-> TRUE, pid |-> pid, err |-> "", files |-> fs,
              sigs |-> <<<<pid, "0">>>>]

\* WriteFile opening with O_APPEND in place of O_TRUNC.
WriteFileAppend(name, data, outcome, fs) ==
    IF fs[name].kind = "blocked" \/ outcome = "open"
    THEN [ok |-> FALSE, files |-> fs]
    ELSE IF outcome = "short"
    THEN [ok |-> FALSE, files |-> [fs EXCEPT ![name] = Regular(@.data)]]
    ELSE [ok |-> TRUE,
          files |-> [fs EXCEPT ![name] = Regular(@.data \o data)]]

\* os.WriteFile(name, data, 0644).  outcome is what the file system does
\* with it: "ok"; "open" (the open fails, nothing is touched); "short" (the
\* file is created or truncated and the write then fails, as on a full
\* disk).  What is at a blocked path cannot be opened for writing.
WriteFile(name, data, outcome, fs) ==
    IF fs[name].kind = "blocked" \/ outcome = "open"
    THEN [ok |-> FALSE, files |-> fs]
    ELSE IF outcome = "short"
    THEN [ok |-> FALSE, files |-> [fs EXCEPT ![name] = Regular(<<>>)]]
    ELSE [ok |-> TRUE, files |-> [fs EXCEPT ![name] = Regular(data)]]

\* StartPortForward looking at the PID file first, and handing back the
\* process it records when that one is alive.
StartPortForwardOnce(service, namespace, mkdirOK, startOK, outcome, fs, ps, np) ==
    LET chk == IsPortForwardRunning(service, namespace, fs, ps)
        started == [ps EXCEPT ![np] =
                       [alive |-> TRUE, key |-> <<service, namespace>>,
                        pgid |-> np]]
        w == WriteFile(PortForwardPIDFile(service, namespace), Itoa(np),
                       outcome, chk.files)
    IN  IF chk.running
        THEN [pid |-> chk.pid, err |-> "", files |-> fs, procs |-> ps,
              nextPid |-> np, sigs |-> <<>>, spawned |-> 0]
        ELSE IF ~mkdirOK \/ ~startOK
        THEN [pid |-> 0, err |-> "failed to start port-forward",
              files |-> chk.files, procs |-> ps, nextPid |-> np,
              sigs |-> <<>>, spawned |-> 0]
        ELSE IF ~w.ok
        THEN [pid |-> 0, err |-> "failed to save PID file",
              files |-> w.files, procs |-> Terminate(np, started),
              nextPid |-> np + 1, sigs |-> <<<<np, "KILL">>>>,
              spawned |-> np]
        ELSE [pid |-> np, err |-> "", files |-> w.files, procs |-> started,
              nextPid |-> np + 1, sigs |-> <<>>, spawned |-> np]

\* StartPortForward without the cmd.Process.Kill() on a failed write.
StartPortForwardNoKill(service, namespace, mkdirOK, startOK, outcome, fs, ps, np) ==
    LET started == [ps EXCEPT ![np] =
                       [alive |-> TRUE, key |-> <<service, namespace>>,
                        pgid |-> np]]
        w == WriteFile(PortForwardPIDFile(service, namespace), Itoa(np),
                       outcome, fs)
    IN  IF ~mkdirOK
        THEN [pid |-> 0, err |-> "failed to create kargo data directory",
              files |-> fs, procs |-> ps, nextPid |-> np, sigs |-> <<>>,
              spawned |-> 0]
        ELSE IF ~startOK
        THEN [pid |-> 0, err |-> "failed to start port-forward",
              files |-> fs, procs |-> ps, nextPid |-> np, sigs |-> <<>>,
              spawned |-> 0]
        ELSE IF ~w.ok
        THEN [pid |-> 0, err |-> "failed to save PID file",
              files |-> w.files, procs |-> started, nextPid |-> np + 1,
              sigs |-> <<>>, spawned |-> np]
        ELSE [pid |-> np, err |-> "", files |-> w.files, procs |-> started,
              nextPid |-> np + 1, sigs |-> <<>>, spawned |-> np]

\* StartPortForward(service, namespace, localPort, remotePort); the ports
\* only reach the kubectl command line.  mkdirOK, startOK and outcome are
\* what os.MkdirAll, cmd.Start and os.WriteFile meet.
StartPortForward(service, namespace, mkdirOK, startOK, outcome, fs, ps, np) ==
    LET pidFile == PortForwardPIDFile(service, namespace)
        cmdPid == np
        started == [ps EXCEPT ![cmdPid] =
                       [alive |-> TRUE, key |-> <<service, namespace>>,
                        pgid |-> cmdPid]]
        w == WriteFile(pidFile, Itoa(cmdPid), outcome, fs)
    IN  IF ~mkdirOK
        THEN [pid |-> 0, err |-> "failed to create kargo data directory",
              files |-> fs, procs |-> ps, nextPid |-> np, sigs |-> <<>>,
              spawned |-> 0]
        ELSE IF ~startOK
        THEN [pid |-> 0, err |-> "failed to start port-forward",
              files |-> fs, procs |-> ps, nextPid |-> np, sigs |-> <<>>,
              spawned |-> 0]
        ELSE IF ~w.ok
        THEN [pid |-> 0, err |-> "failed to save PID file",
              files |-> w.files, procs |-> Terminate(cmdPid, started),
              nextPid |-> np + 1, sigs |-> <<<<cmdPid, "KILL">>>>,
              spawned |-> cmdPid]
        ELSE [pid |-> cmdPid, err |-> "", files |-> w.files,
              procs |-> started, nextPid |-> np + 1, sigs |-> <<>>,
              spawned |-> cmdPid]

\* StopPortForward without the `if !running` return.
StopPortForwardUnchecked(service, namespace, exits, fs, ps) ==
    LET chk == IsPortForwardRunning(service, namespace, fs, ps)
        now == IF exits THEN Terminate(chk.pid, ps) ELSE ps
    IN  IF chk.err # ""
        THEN [err |-> "failed to check port forwarding status",
              running |-> FALSE, pid |-> 0, files |-> chk.files,
              procs |-> ps, sigs |-> chk.sigs]
        ELSE IF ~KillOK(0 - chk.pid, now)
        THEN [err |-> "failed to stop port forwarding process",
              running |-> chk.running, pid |-> chk.pid, files |-> chk.files,
              procs |-> now,
              sigs |-> chk.sigs \o <<<<0 - chk.pid, "TERM">>>>]
        ELSE [err |-> "", running |-> chk.running, pid |-> chk.pid,
              files |-> [chk.files EXCEPT
                            ![PortForwardPIDFile(service, namespace)] = Absent],
              procs |-> Terminate(0 - chk.pid, now),
              sigs |-> chk.sigs \o <<<<0 - chk.pid, "TERM">>>>]

\* StopPortForward(service, namespace).  exits: the recorded process exits
\* by itself after the liveness probe and before the signal is sent.
StopPortForward(service, namespace, exits, fs, ps) ==
    LET chk == IsPortForwardRunning(service, namespace, fs, ps)
        pid == chk.pid
        pidFile == PortForwardPIDFile(service, namespace)
        now == IF exits THEN Terminate(pid, ps) ELSE ps
    IN  IF chk.err # ""
        THEN [err |-> "failed to check port forwarding status",
              running |-> FALSE, pid |-> 0, files |-> chk.files,
              procs |-> ps, sigs |-> chk.sigs]
        ELSE IF ~chk.running
        THEN [err |-> "port forwarding is not running",
              running |-> FALSE, pid |-> 0, files |-> chk.files,
              procs |-> ps, sigs |-> chk.sigs]
        ELSE IF ~KillOK(0 - pid, now)
        THEN [err |-> "failed to stop port forwarding process",
              running |-> TRUE, pid |-> pid, files |-> chk.files,
              procs |-> now, sigs |-> chk.sigs \o <<<<0 - pid, "TERM">>>>]
        ELSE [err |-> "", running |-> TRUE, pid |-> pid,
              files |-> [chk.files EXCEPT ![pidFile] = Absent],
              procs |-> Terminate(0 - pid, now),
              sigs |-> chk.sigs \o <<<<0 - pid, "TERM">>>>]

\* What a PID file may hold before the tool runs: nothing; something
\* unreadable; the pid of an unrelated live process, with a newline as an
\* editor or echo leaves it; the pid of a process that is gone; text that
\* is no number; no text.
PriorFiles ==
    {Absent, Blocked,
     Regular(Itoa(GroupLeaderPid) \o <<"\n">>),
     Regular(Itoa(GroupMemberPid)),
     Regular(Itoa(GonePid)),
     Regular(Itoa(GroupLeaderPid) \o <<"x">>),
     Regular(<<>>)}

InitProcs ==
    [p \in Pids |->
        IF p \in {GroupLeaderPid, GroupMemberPid}
        THEN [alive |-> TRUE, key |-> NoKey, pgid |-> GroupLeaderPid]
        ELSE NoProc]

InitPortForward ==
    /\ files \in [Paths -> PriorFiles]
    /\ Cardinality({n \in Paths : files[n] # Absent}) <= 1
    /\ procs = InitProcs
    /\ nextPid = FirstPid
    /\ last = [op |-> "none", key |-> NoKey, running |-> FALSE, pid |-> 0,
               err |-> "", sigs |-> <<>>, spawned |-> 0, pre |-> files,
               preProcs |-> procs]

\* A call of IsPortForwardRunning.
Check(k) ==
    LET r == IsPortForwardRunning(k[1], k[2], files, procs)
    IN  /\ files' = r.files
        /\ last' = [op |-> "IsPortForwardRunning", key |-> k,
                    running |-> r.running, pid |-> r.pid, err |-> r.err,
                    sigs |-> r.sigs, spawned |-> 0, pre |-> files,
                    preProcs |-> procs]
        /\ UNCHANGED <<procs, nextPid, kindVars, pollVars, verbVars,
                       raceVars, listVars>>

\* A call of StartPortForward.
Start(k, mkdirOK, startOK, outcome) ==
    LET r == StartPortForward(k[1], k[2], mkdirOK, startOK, outcome,
                              files, procs, nextPid)
    IN  /\ nextPid <= MaxPid
        /\ files' = r.files
        /\ procs' = r.procs
        /\ nextPid' = r.nextPid
        /\ last' = [op |-> "StartPortForward", key |-> k,
                    running |-> FALSE, pid |-> r.pid, err |-> r.err,
                    sigs |-> r.sigs, spawned |-> r.spawned, pre |-> files,
                    preProcs |-> procs]
        /\ UNCHANGED <<kindVars, pollVars, verbVars, raceVars, listVars>>

\* A call of StopPortForward.
Stop(k, exits) ==
    LET r == StopPortForward(k[1], k[2], exits, files, procs)
    IN  /\ files' = r.files
        /\ procs' = r.procs
        /\ last' = [op |-> "StopPortForward", key |-> k,
                    running |-> r.running, pid |-> r.pid, err |-> r.err,
                    sigs |-> r.sigs, spawned |-> 0, pre |-> files,
                    preProcs |-> procs]
        /\ UNCHANGED <<nextPid, kindVars, pollVars, verbVars,
                       raceVars, listVars>>

\* A port-forward process exits or is killed from outside the tool.  Its
\* pid is not handed out again: nextPid only grows.
Exit(p) ==
    /\ procs[p].alive
    /\ procs[p].key # NoKey
    /\ procs' = [procs EXCEPT ![p].alive = FALSE]
    /\ UNCHANGED <<files, nextPid, last, kindVars, pollVars, verbVars,
                   raceVars, listVars>>

NextPortForward ==
    \/ \E k \in Keys : Check(k)
    \/ \E k \in Keys, mkdirOK \in BOOLEAN, startOK \in BOOLEAN,
          outcome \in {"ok", "open", "short"} :
            Start(k, mkdirOK, startOK, outcome)
    \/ \E k \in Keys, exits \in BOOLEAN : Stop(k, exits)
    \/ \E p \in Pids : Exit(p)

\* The operating system hands the pid of a process that is gone to a new
\* process, one the tool has nothing to do with; it leads a process group of
\* its own (leader) or joins the group of the processes that were there.
Reassign(p, leader) ==
    /\ p >= FirstPid
    /\ p < nextPid
    /\ ~procs[p].alive
    /\ procs' = [procs EXCEPT ![p] =
                    [alive |-> TRUE, key |-> NoKey,
                     pgid |-> IF leader THEN p ELSE GroupLeaderPid]]
    /\ UNCHANGED <<files, nextPid, last, kindVars, pollVars, verbVars,
                   raceVars, listVars>>

\* The port-forward manager on a machine whose pids come round again.
NextReuse ==
    \/ \E k \in Keys : Check(k)
    \/ \E k \in Keys, mkdirOK \in BOOLEAN, startOK \in BOOLEAN,
          outcome \in {"ok", "open", "short"} :
            Start(k, mkdirOK, startOK, outcome)
    \/ \E k \in Keys, exits \in BOOLEAN : Stop(k, exits)
    \/ \E p \in Pids : Exit(p)
    \/ \E p \in Pids, leader \in BOOLEAN : Reassign(p, leader)

\* Two users of the port-forward manager at once, each doing what its
\* callers do: IsPortForwardRunning, and StartPortForward when that said
\* "not running".
Callers == {1, 2}

\* Caller c has not called yet; it is after the key k.
Waiting(k) == [pc |-> "check", key |-> k, running |-> FALSE, pid |-> 0,
               err |-> ""]

\* Caller c calls IsPortForwardRunning.
CallerCheck(c) ==
    LET k == callers[c].key
        r == IsPortForwardRunning(k[1], k[2], files, procs)
    IN  /\ callers[c].pc = "check"
        /\ files' = r.files
        /\ callers' = [callers EXCEPT ![c] =
                          [pc |-> IF r.err = "" /\ ~r.running
                                  THEN "start" ELSE "done",
                           key |-> k, running |-> r.running, pid |-> r.pid,
                           err |-> r.err]]
        /\ UNCHANGED <<procs, nextPid, last, kindVars, pollVars,
                       verbVars, listVars>>

\* Caller c, told "not running", calls StartPortForward.
CallerStart(c, mkdirOK, startOK, outcome) ==
    LET k == callers[c].key
        r == StartPortForward(k[1], k[2], mkdirOK, startOK, outcome,
                              files, procs, nextPid)
    IN  /\ callers[c].pc = "start"
        /\ nextPid <= MaxPid
        /\ files' = r.files
        /\ procs' = r.procs
        /\ nextPid' = r.nextPid
        /\ callers' = [callers EXCEPT ![c] =
                          [@ EXCEPT !.pc = "done", !.pid = r.pid,
                                    !.err = r.err]]
        /\ UNCHANGED <<last, kindVars, pollVars, verbVars, listVars>>

InitRace ==
    callers \in [Callers -> {Waiting(k) : k \in Keys}]

NextRace ==
    \/ \E c \in Callers : CallerCheck(c)
    \/ \E c \in Callers, mkdirOK \in BOOLEAN, startOK \in BOOLEAN,
          outcome \in {"ok", "open", "short"} :
            CallerStart(c, mkdirOK, startOK, outcome)

----------------------------------------------------------------------------
(* The readiness polls.                                                    *)

\* strings.Contains(s, sub).
Contains(s, sub) ==
    \E i \in 0..(Len(s) - Len(sub)) : SubSeq(s, i + 1, i + Len(sub)) = sub

Running == <<"R", "u", "n", "n", "i", "n", "g">>

\* What `kubectl get pods ... --no-headers` may print.
PodOutputs ==
    {<<>>,
     <<"c", " ", "0", "/", "1", " ", "P", "e", "n", "d", "i", "n", "g">>,
     <<"c", " ", "1", "/", "1", " ">> \o Running \o <<" ", "0">>,
     <<"R", "u", "n", "n", "i", "n">>}

\* The namespaces the polls are asked about (argocdNS, certManagerNS).
PollNamespaces == {<<"a", "r", "g", "o", "c", "d">>,
                   <<"c", "e", "r", "t", "-", "m", "a", "n", "a", "g", "e", "r">>}

\* for i := 0; i < 60; i++ in WaitForArgoRolloutsReady.
ArgoAttempts == 60
\* for i := 0; i < 60; i++ in WaitForNamespaceDeleted.
NamespaceAttempts == 60

\* The loops written `i <= 60`.
AttemptsInclusive(fn) ==
    IF fn = "WaitForArgoRolloutsReady"
    THEN ArgoAttempts + 1
    ELSE NamespaceAttempts + 1

Attempts(fn) ==
    IF fn = "WaitForArgoRolloutsReady" THEN ArgoAttempts ELSE NamespaceAttempts

\* The rollouts poll taking the word in the output of a failed command.
SatisfiedByOutput(fn, cmdOK, output) ==
    IF fn = "WaitForArgoRolloutsReady"
    THEN Contains(output, Running)
    ELSE ~cmdOK

\* The condition on which a poll returns nil: for the rollouts, the command
\* succeeded and printed "Running"; for the namespace, the command failed.
Satisfied(fn, cmdOK, output) ==
    IF fn = "WaitForArgoRolloutsReady"
    THEN cmdOK /\ Contains(output, Running)
    ELSE ~cmdOK

\* The error a poll returns when its attempts are used up.
TimeoutError(fn, namespace) ==
    IF fn = "WaitForArgoRolloutsReady"
    THEN <<"timeout waiting for Argo Rollouts to be ready in namespace '">>
            \o namespace \o <<"'">>
    ELSE <<"timeout waiting for namespace '">> \o namespace
            \o <<"' to be deleted">>

NoPoll == [pc |-> "idle", fn |-> "", namespace |-> <<>>, i |-> 0,
           probes |-> 0, satisfied |-> 0, err |-> <<>>,
           cmdOK |-> TRUE, output |-> <<>>]

\* A poll is called.
PollCall(fn, namespace) ==
    /\ poll.pc \in {"idle", "returned"}
    /\ poll' = [pc |-> "loop", fn |-> fn, namespace |-> namespace, i |-> 0,
                probes |-> 0, satisfied |-> 0, err |-> <<>>,
                cmdOK |-> TRUE, output |-> <<>>]
    /\ UNCHANGED <<pfVars, kindVars, verbVars, raceVars, listVars>>

\* One iteration of the loop: the command is run (cmdOK and output are its
\* exit and what it printed; `kubectl get namespace` is run for its exit
\* only); the poll returns nil when the condition holds, and sleeps a
\* second and counts otherwise.
PollIteration(cmdOK, output) ==
    /\ poll.pc = "loop"
    /\ poll.i < Attempts(poll.fn)
    /\ poll.fn = "WaitForNamespaceDeleted" => output = <<>>
    /\ IF Satisfied(poll.fn, cmdOK, output)
       THEN poll' = [poll EXCEPT !.probes = @ + 1, !.satisfied = @ + 1,
                                 !.pc = "returned",
                                 !.cmdOK = cmdOK, !.output = output]
       ELSE poll' = [poll EXCEPT !.probes = @ + 1, !.i = @ + 1,
                                 !.cmdOK = cmdOK, !.output = output]
    /\ UNCHANGED <<pfVars, kindVars, verbVars, raceVars, listVars>>

\* The loop ends: the poll returns its timeout error.
PollTimeout ==
    /\ poll.pc = "loop"
    /\ ~(poll.i < Attempts(poll.fn))
    /\ poll' = [poll EXCEPT !.pc = "returned",
                            !.err = TimeoutError(poll.fn, poll.namespace)]
    /\ UNCHANGED <<pfVars, kindVars, verbVars, raceVars, listVars>>

InitPoll == poll = NoPoll

NextPoll ==
    \/ \E fn \in {"WaitForArgoRolloutsReady", "WaitForNamespaceDeleted"},
          namespace \in PollNamespaces : PollCall(fn, namespace)
    \/ \E cmdOK \in BOOLEAN, output \in PodOutputs :
          PollIteration(cmdOK, output)
    \/ PollTimeout

\* C9: a poll makes at most 60 probes; one whose probe never satisfied its
\* condition has returned a timeout error naming the namespace after
\* exactly 60 probes, and a poll returns that error in no other case.
C9_TimeoutAfterSixtyProbes ==
    /\ poll.probes <= 60
    /\ (poll.pc = "returned") =>
        /\ (poll.satisfied = 0) =>
              /\ poll.probes = 60
              /\ poll.err # <<>>
              /\ Head(poll.err) \in
                    {"timeout waiting for namespace '",
                     "timeout waiting for Argo Rollouts to be ready in namespace '"}
              /\ Contains(Tail(poll.err), poll.namespace)
        /\ (poll.err # <<>>) => (poll.satisfied = 0 /\ poll.probes = 60)

\* C9, its case: a poll that timed out.
C9_Witness ==
    /\ poll.pc = "returned"
    /\ poll.fn = "WaitForNamespaceDeleted"
    /\ poll.satisfied = 0
    /\ poll.err # <<>>

\* C20: a poll whose probe satisfies the condition returns nil at that
\* probe, the (i+1)-th of the call, having made exactly i+1 probes, between
\* 1 and 60; a poll whose last probe did not satisfy it has not returned
\* nil.  The condition of WaitForArgoRolloutsReady is an exit status of
\* zero and "Running" in the output, and that of WaitForNamespaceDeleted
\* is that `kubectl get namespace` failed.
C20_ReturnsAtFirstSatisfyingProbe ==
    LET hit == IF poll.fn = "WaitForArgoRolloutsReady"
               THEN poll.cmdOK /\ Contains(poll.output, Running)
               ELSE ~poll.cmdOK
    IN  (poll.probes > 0) =>
            IF hit
            THEN /\ poll.pc = "returned"
                 /\ poll.err = <<>>
                 /\ poll.probes = poll.i + 1
                 /\ poll.probes \in 1..60
            ELSE /\ poll.probes = poll.i
                 /\ poll.pc = "returned" => poll.err # <<>>

\* C20, its case: the rollouts poll returns nil at its third probe, after
\* a probe that did not satisfy the condition.
C20_Witness ==
    /\ poll.fn = "WaitForArgoRolloutsReady"
    /\ poll.pc = "returned"
    /\ poll.err = <<>>
    /\ poll.probes = 3
    /\ poll.i = 2

----------------------------------------------------------------------------
(* The Kind verbs.                                                         *)

clusterName == <<"k", "a", "r", "g", "o">>

\* Other clusters a machine may hold.
OtherClusters == {<<"k", "a", "r", "g", "o", "2">>, <<"d", "e", "v">>}

\* strings.Join(lines, "\n").
RECURSIVE JoinLines(_)
JoinLines(lines) ==
    IF lines = <<>> THEN <<>>
    ELSE IF Len(lines) = 1 THEN lines[1]
    ELSE lines[1] \o <<"\n">> \o JoinLines(Tail(lines))

\* strings.Split(s, "\n"): the pieces between the newlines, at least one.
RECURSIVE SplitLines(_, _)
SplitLines(s, piece) ==
    IF s = <<>> THEN <<piece>>
    ELSE IF Head(s) = "\n" THEN <<piece>> \o SplitLines(Tail(s), <<>>)
    ELSE SplitLines(Tail(s), Append(piece, Head(s)))

\* What sh.Output("kind", "get", "clusters") returns for the clusters cl:
\* one name a line, the last newline cut.
KindGetClusters(cl) == JoinLines(cl)

\* ClusterExists looking for the name anywhere in the output.
ClusterExistsBySubstring(name, listOK, cl) ==
    IF ~listOK
    THEN [exists |-> FALSE, err |-> "failed to get clusters"]
    ELSE [exists |-> Contains(KindGetClusters(cl), name), err |-> ""]

\* ClusterExists taking a listing that failed for "no such cluster", the way
\* ReleaseExists takes a failed `helm status`.
ClusterExistsLenient(name, listOK, cl) ==
    LET lines == SplitLines(KindGetClusters(cl), <<>>)
    IN  IF ~listOK
        THEN [exists |-> FALSE, err |-> ""]
        ELSE [exists |-> \E i \in 1..Len(lines) : TrimSpace(lines[i]) = name,
              err |-> ""]

\* ClusterExists taking a line that begins with the name for the name.
ClusterExistsByPrefix(name, listOK, cl) ==
    LET lines == SplitLines(KindGetClusters(cl), <<>>)
    IN  IF ~listOK
        THEN [exists |-> FALSE, err |-> "failed to get clusters"]
        ELSE [exists |-> \E i \in 1..Len(lines) :
                            /\ Len(lines[i]) >= Len(name)
                            /\ SubSeq(lines[i], 1, Len(name)) = name,
              err |-> ""]

\* ClusterExists(name): listOK is whether `kind get clusters` ran.
ClusterExists(name, listOK, cl) ==
    LET lines == SplitLines(KindGetClusters(cl), <<>>)
    IN  IF ~listOK
        THEN [exists |-> FALSE, err |-> "failed to get clusters"]
        ELSE [exists |-> \E i \in 1..Len(lines) : TrimSpace(lines[i]) = name,
              err |-> ""]

\* The clusters left when `kind create cluster --name name` returns nil.
CreateCluster(name, cl) == Append(cl, name)

\* The clusters left when `kind delete cluster --name name` returns nil.
DeleteCluster(name, cl) == SelectSeq(cl, LAMBDA c : c # name)

\* Kind.Up going on to export the kubeconfig after a failed create.
KindUpExportsAnyway(listOK, createOK, exportOK, cl) ==
    LET chk == ClusterExists(clusterName, listOK, cl)
        made == IF chk.exists \/ ~createOK THEN cl
                ELSE CreateCluster(clusterName, cl)
        pre == IF chk.exists
               THEN <<"kind get clusters">>
               ELSE <<"kind get clusters", "kind create cluster">>
    IN  IF chk.err # ""
        THEN [err |-> "failed to check cluster existence",
              calls |-> <<"kind get clusters">>, clusters |-> cl]
        ELSE IF ~exportOK \/ (~chk.exists /\ ~createOK)
        THEN [err |-> "failed to export kubeconfig",
              calls |-> Append(pre, "kind export kubeconfig"),
              clusters |-> made]
        ELSE [err |-> "", calls |-> Append(pre, "kind export kubeconfig"),
              clusters |-> made]

\* Kind.Up.  listOK, createOK and exportOK are whether `kind get clusters`,
\* `kind create cluster` and `kind export kubeconfig` succeed when run.
KindUp(listOK, createOK, exportOK, cl) ==
    LET chk == ClusterExists(clusterName, listOK, cl)
        made == IF chk.exists THEN cl ELSE CreateCluster(clusterName, cl)
        pre == IF chk.exists
               THEN <<"kind get clusters">>
               ELSE <<"kind get clusters", "kind create cluster">>
    IN  IF chk.err # ""
        THEN [err |-> "failed to check cluster existence",
              calls |-> <<"kind get clusters">>, clusters |-> cl]
        ELSE IF ~chk.exists /\ ~createOK
        THEN [err |-> "failed to create cluster", calls |-> pre,
              clusters |-> cl]
        ELSE IF ~exportOK
        THEN [err |-> "failed to export kubeconfig",
              calls |-> Append(pre, "kind export kubeconfig"),
              clusters |-> made]
        ELSE [err |-> "", calls |-> Append(pre, "kind export kubeconfig"),
              clusters |-> made]

\* Kind.Down.
KindDown(listOK, deleteOK, cl) ==
    LET chk == ClusterExists(clusterName, listOK, cl)
    IN  IF chk.err # ""
        THEN [err |-> "failed to check cluster existence",
              calls |-> <<"kind get clusters">>, clusters |-> cl]
        ELSE IF ~chk.exists
        THEN [err |-> "", calls |-> <<"kind get clusters">>, clusters |-> cl]
        ELSE IF ~deleteOK
        THEN [err |-> "failed to delete cluster",
              calls |-> <<"kind get clusters", "kind delete cluster">>,
              clusters |-> cl]
        ELSE [err |-> "",
              calls |-> <<"kind get clusters", "kind delete cluster">>,
              clusters |-> DeleteCluster(clusterName, cl)]

\* The record of a verb that has run: what it was, the clusters and the
\* command results it met, the commands it invoked and what it returned.
RunOf(verb, ok, cl, r) ==
    [verb |-> verb, ok |-> ok, pre |-> cl, calls |-> r.calls, err |-> r.err]

\* `mage kind:up`.
RunKindUp(listOK, createOK, exportOK) ==
    LET r == KindUp(listOK, createOK, exportOK, clusters)
        ok == [list |-> listOK, create |-> createOK, delete |-> TRUE,
               export |-> exportOK]
    IN  /\ Len(runs) < MaxRuns
        /\ clusters' = r.clusters
        /\ runs' = Append(runs, RunOf("Kind.Up", ok, clusters, r))
        /\ UNCHANGED <<pfVars, pollVars, verbVars, raceVars, listVars>>

\* `mage kind:down`.
RunKindDown(listOK, deleteOK) ==
    LET r == KindDown(listOK, deleteOK, clusters)
        ok == [list |-> listOK, create |-> TRUE, delete |-> deleteOK,
               export |-> TRUE]
    IN  /\ Len(runs) < MaxRuns
        /\ clusters' = r.clusters
        /\ runs' = Append(runs, RunOf("Kind.Down", ok, clusters, r))
        /\ UNCHANGED <<pfVars, pollVars, verbVars, raceVars, listVars>>

InitKind ==
    /\ clusters \in {<<>>, <<clusterName>>}
                       \cup {<<c>> : c \in OtherClusters}
                       \cup {<<c, clusterName>> : c \in OtherClusters}
    /\ runs = <<>>

NextKind ==
    \/ \E listOK \in BOOLEAN, createOK \in BOOLEAN, exportOK \in BOOLEAN :
          RunKindUp(listOK, createOK, exportOK)
    \/ \E listOK \in BOOLEAN, deleteOK \in BOOLEAN :
          RunKindDown(listOK, deleteOK)

\* How often command c is among the calls of a run.
Invoked(calls, c) == Cardinality({i \in 1..Len(calls) : calls[i] = c})

\* Whether the cluster clusterName is among the clusters cl.
Present(cl) == \E i \in 1..Len(cl) : cl[i] = clusterName

\* C10: every Kind.Up that succeeds has invoked create exactly when the
\* cluster was absent, and export-kubeconfig exactly once, as its last
\* command; with the cluster absent and every command succeeding, Up is
\* list, create, export and succeeds, and a Kind.Up right after a
\* successful one is list, export (no create) and succeeds when its
\* commands do.
C10_UpCreatesOnceThenExports ==
    \A i \in 1..Len(runs) :
        (runs[i].verb = "Kind.Up") =>
            /\ (runs[i].err = "") =>
                  /\ Invoked(runs[i].calls, "kind create cluster")
                        = IF Present(runs[i].pre) THEN 0 ELSE 1
                  /\ Invoked(runs[i].calls, "kind export kubeconfig") = 1
                  /\ runs[i].calls[Len(runs[i].calls)]
                        = "kind export kubeconfig"
            /\ (/\ ~Present(runs[i].pre)
                /\ runs[i].ok.list /\ runs[i].ok.create /\ runs[i].ok.export) =>
                  /\ runs[i].err = ""
                  /\ runs[i].calls = <<"kind get clusters",
                                       "kind create cluster",
                                       "kind export kubeconfig">>
            /\ (/\ i > 1
                /\ runs[i - 1].verb = "Kind.Up" /\ runs[i - 1].err = ""
                /\ runs[i].ok.list /\ runs[i].ok.export) =>
                  /\ runs[i].err = ""
                  /\ runs[i].calls = <<"kind get clusters",
                                       "kind export kubeconfig">>

\* C10, its case: Up with the cluster absent, then Up again, both
\* succeeding.
C10_Witness ==
    /\ Len(runs) >= 2
    /\ runs[1].verb = "Kind.Up" /\ runs[1].err = ""
    /\ ~Present(runs[1].pre)
    /\ runs[2].verb = "Kind.Up" /\ runs[2].err = ""

----------------------------------------------------------------------------
(* ClusterExists, called on what `kind get clusters` may print.            *)

\* The most lines the listing prints.
MaxLines == 2

\* The names ClusterExists is asked for.
ClusterNames == {clusterName} \cup OtherClusters

\* The lines of a listing: names, names with white space around them, names
\* that hold clusterName or begin it, an empty line.
LineTexts ==
    {<<>>,
     <<"k", "a", "r", "g", "o">>,
     <<" ", "k", "a", "r", "g", "o", " ">>,
     <<"k", "a", "r", "g", "o", "\r">>,
     <<"k", "a", "r", "g", "o", "2">>,
     <<"m", "y", "k", "a", "r", "g", "o">>,
     <<"k", "a", "r">>,
     <<"k", "a", "r", " ", "g", "o">>,
     <<"\t", "d", "e", "v">>}

\* The listings of at most MaxLines lines.
Listings == UNION {[1..n -> LineTexts] : n \in 0..MaxLines}

\* No call of ClusterExists has been made.
NoListing == [name |-> <<>>, listOK |-> TRUE, output |-> <<>>,
              exists |-> FALSE, err |-> "", called |-> FALSE]

\* ClusterExists(name) is called; `kind get clusters` prints lines, or
\* fails when listOK is FALSE.
ListClusters(name, listOK, lines) ==
    LET r == ClusterExists(name, listOK, lines)
    IN  /\ ~listing.called
        /\ listing' = [name |-> name, listOK |-> listOK,
                       output |-> KindGetClusters(lines),
                       exists |-> r.exists, err |-> r.err, called |-> TRUE]
        /\ UNCHANGED <<pfVars, kindVars, pollVars, verbVars, raceVars>>

InitList == listing = NoListing

NextList ==
    \E name \in ClusterNames, listOK \in BOOLEAN, lines \in Listings :
        ListClusters(name, listOK, lines)

----------------------------------------------------------------------------
(* The add-on verbs (CertManager, ArgoCD), the remaining Kind verbs, and   *)
(* `mage <verb>`: one invocation of the tool.                              *)

\* The helm releases the verbs manage: "cert-manager" in certManagerNS and
\* "argo-cd" in argocdNS.
Releases == {"cert-manager", "argo-cd"}

\* The calls a verb makes that run a command, by the function that makes it.
Steps ==
    {"ClusterExists", "CreateCluster", "DeleteCluster", "ExportKubeconfig",
     "GetClusterInfo", "GetNodeStatus", "EnsureHelmRepo", "RepoUpdate",
     "CreateNamespace", "ReleaseExists", "UpgradeHelmChart",
     "InstallHelmChart", "UninstallHelmChart", "DeleteCRDs",
     "DeleteAPIService", "GetHelmChartStatus", "GetPods", "GetResources"}

\* What the machine does with the commands of one verb: ok[s] is whether
\* nothing outside the program's state (network, permissions, disk) makes the
\* command of step s fail.  Only the steps in steps are let fail.
Outcomes(steps) ==
    {[s \in Steps |-> IF s \in steps THEN g[s] ELSE TRUE] :
        g \in [steps -> BOOLEAN]}

\* One command a verb ran and whether it exited zero.
Call(cmd, ok) == [cmd |-> cmd, ok |-> ok]

\* What a verb returns and leaves: its error ("" is nil), the commands it
\* ran in order, the clusters and releases afterwards, the seconds it slept.
Result(err, calls, cl, rel) ==
    [err |-> err, calls |-> calls, clusters |-> cl, releases |-> rel,
     slept |-> 0]

\* `helm status name --namespace ns` exits zero: the cluster is there, the
\* release is installed, and nothing else goes wrong.
HelmStatus(name, ok, cl, rel) == ok /\ Present(cl) /\ name \in rel

\* ReleaseExists taking every release to be installed.
ReleaseExistsAlways(name, probeOK, cl, rel) == [exists |-> TRUE, err |-> ""]

\* ReleaseExists returning the error of a probe that failed although the
\* release is installed.
ReleaseExistsStrict(name, probeOK, cl, rel) ==
    IF HelmStatus(name, probeOK, cl, rel)
    THEN [exists |-> TRUE, err |-> ""]
    ELSE IF Present(cl) /\ name \in rel
    THEN [exists |-> FALSE, err |-> "helm status failed"]
    ELSE [exists |-> FALSE, err |-> ""]

\* ReleaseExists(name, namespace): helm status failed, the release is taken
\* not to exist; there is no error.
ReleaseExists(name, probeOK, cl, rel) ==
    IF ~HelmStatus(name, probeOK, cl, rel)
    THEN [exists |-> FALSE, err |-> ""]
    ELSE [exists |-> TRUE, err |-> ""]

\* InstallHelmChart: `helm install` refuses a name that is in use.
InstallHelmChart(name, ok, cl, rel) ==
    LET done == ok /\ Present(cl) /\ name \notin rel
    IN  [ok |-> done, releases |-> IF done THEN rel \cup {name} ELSE rel]

\* UpgradeHelmChart: `helm upgrade` (without --install) needs the release.
UpgradeHelmChart(name, ok, cl, rel) ==
    [ok |-> ok /\ Present(cl) /\ name \in rel, releases |-> rel]

\* UninstallHelmChart.
UninstallHelmChart(name, ok, cl, rel) ==
    LET done == ok /\ Present(cl) /\ name \in rel
    IN  [ok |-> done, releases |-> IF done THEN rel \ {name} ELSE rel]

\* The commands of a Kind verb, each with its exit.
KindCalls(calls, ok) ==
    [i \in 1..Len(calls) |->
        Call(calls[i],
             CASE calls[i] = "kind get clusters" -> ok.ClusterExists
               [] calls[i] = "kind create cluster" -> ok.CreateCluster
               [] calls[i] = "kind delete cluster" -> ok.DeleteCluster
               [] OTHER -> ok.ExportKubeconfig)]

\* mg.Deps letting the verb go on after Kind.Up returned an error.
DepsKindUpLenient(ok, cl) ==
    LET k == KindUp(ok.ClusterExists, ok.CreateCluster, ok.ExportKubeconfig,
                    cl)
    IN  [err |-> "", calls |-> KindCalls(k.calls, ok), clusters |-> k.clusters]

\* mg.Deps(Kind.Up): Kind.Up is run, and when it returns an error the verb
\* that depends on it goes no further (mg.Deps panics with that error).
DepsKindUp(ok, cl) ==
    LET k == KindUp(ok.ClusterExists, ok.CreateCluster, ok.ExportKubeconfig,
                    cl)
    IN  [err |-> k.err, calls |-> KindCalls(k.calls, ok),
         clusters |-> k.clusters]

\* CertManager.Up returning the error of a failed namespace creation.
CertManagerUpNamespaceFatal(k, ok, rel) ==
    LET ns == Call("kubectl create namespace", ok.CreateNamespace)
        chk == ReleaseExists("cert-manager", ok.ReleaseExists, k.clusters, rel)
        probe == Call("helm status",
                      HelmStatus("cert-manager", ok.ReleaseExists, k.clusters,
                                 rel))
        up == UpgradeHelmChart("cert-manager", ok.UpgradeHelmChart,
                               k.clusters, rel)
        inst == InstallHelmChart("cert-manager", ok.InstallHelmChart,
                               k.clusters, rel)
        pre == k.calls \o <<ns, probe>>
    IN  IF k.err # ""
        THEN Result(k.err, k.calls, k.clusters, rel)
        ELSE IF ~ns.ok
        THEN Result("failed to create namespace", Append(k.calls, ns),
                    k.clusters, rel)
        ELSE IF chk.exists
        THEN Result(IF up.ok THEN "" ELSE "failed to upgrade cert-manager",
                    Append(pre, Call("helm upgrade", up.ok)),
                    k.clusters, up.releases)
        ELSE Result(IF inst.ok THEN "" ELSE "failed to install cert-manager",
                    Append(pre, Call("helm install", inst.ok)),
                    k.clusters, inst.releases)

\* CertManager.Up once mg.Deps(Kind.Up) has run with the result k.
CertManagerUpAfter(k, ok, rel) ==
    LET ns == Call("kubectl create namespace", ok.CreateNamespace)
        chk == ReleaseExists("cert-manager", ok.ReleaseExists, k.clusters, rel)
        probe == Call("helm status",
                      HelmStatus("cert-manager", ok.ReleaseExists, k.clusters,
                                 rel))
        up == UpgradeHelmChart("cert-manager", ok.UpgradeHelmChart,
                               k.clusters, rel)
        inst == InstallHelmChart("cert-manager", ok.InstallHelmChart,
                               k.clusters, rel)
        pre == k.calls \o <<ns, probe>>
    IN  IF k.err # ""
        THEN Result(k.err, k.calls, k.clusters, rel)
        ELSE IF chk.err # ""
        THEN Result("failed to check cert-manager installation", pre,
                    k.clusters, rel)
        ELSE IF chk.exists
        THEN Result(IF up.ok THEN "" ELSE "failed to upgrade cert-manager",
                    Append(pre, Call("helm upgrade", up.ok)),
                    k.clusters, up.releases)
        ELSE Result(IF inst.ok THEN "" ELSE "failed to install cert-manager",
                    Append(pre, Call("helm install", inst.ok)),
                    k.clusters, inst.releases)

\* CertManager.Up.
CertManagerUp(ok, cl, rel) == CertManagerUpAfter(DepsKindUp(ok, cl), ok, rel)

\* CertManager.Down.  The two cleanup commands' errors are dropped.
CertManagerDown(ok, cl, rel) ==
    LET chk == ReleaseExists("cert-manager", ok.ReleaseExists, cl, rel)
        probe == Call("helm status",
                      HelmStatus("cert-manager", ok.ReleaseExists, cl, rel))
        un == UninstallHelmChart("cert-manager", ok.UninstallHelmChart, cl,
                                 rel)
    IN  IF chk.err # ""
        THEN Result("failed to check cert-manager installation", <<probe>>,
                    cl, rel)
        ELSE IF ~chk.exists
        THEN Result("", <<probe>>, cl, rel)
        ELSE IF ~un.ok
        THEN Result("failed to uninstall cert-manager",
                    <<probe, Call("helm uninstall", FALSE)>>, cl, rel)
        ELSE Result("",
                    <<probe, Call("helm uninstall", TRUE),
                      Call("kubectl delete crd", ok.DeleteCRDs),
                      Call("kubectl delete apiservice", ok.DeleteAPIService)>>,
                    cl, un.releases)

\* time.Sleep(5 * time.Second) in the UpClean verbs.
SettleSeconds == 5

\* The errors Kind.Up returns; mg.Deps passes them on as they are.
KindUpErrors == {"failed to check cluster existence",
                 "failed to create cluster", "failed to export kubeconfig"}

\* UpClean sleeping after its Up.
DownUpSleep(d, u, wrapDown, wrapUp) ==
    IF d.err # ""
    THEN Result(wrapDown, d.calls, d.clusters, d.releases)
    ELSE [err |-> IF u.err = "" THEN ""
                  ELSE IF u.err \in KindUpErrors THEN u.err
                  ELSE wrapUp,
          calls |-> d.calls \o u.calls \o <<Call("time.Sleep", TRUE)>>,
          clusters |-> u.clusters, releases |-> u.releases,
          slept |-> SettleSeconds]

\* Down, the sleep, Up: what UpClean does with the two verbs' results.
\* wrapDown and wrapUp are the sentences it puts before their errors.
DownSleepUp(d, u, wrapDown, wrapUp) ==
    IF d.err # ""
    THEN Result(wrapDown, d.calls, d.clusters, d.releases)
    ELSE [err |-> IF u.err = "" THEN ""
                  ELSE IF u.err \in KindUpErrors THEN u.err
                  ELSE wrapUp,
          calls |-> d.calls \o <<Call("time.Sleep", TRUE)>> \o u.calls,
          clusters |-> u.clusters, releases |-> u.releases,
          slept |-> SettleSeconds]

\* CertManager.UpClean.  okDown and okUp are what the commands of its Down
\* and of its Up meet.
CertManagerUpClean(okDown, okUp, cl, rel) ==
    LET d == CertManagerDown(okDown, cl, rel)
        u == CertManagerUp(okUp, d.clusters, d.releases)
    IN  DownSleepUp(d, u, "failed to uninstall existing cert-manager",
                    "failed to install cert-manager")

\* CertManager.Status.
CertManagerStatus(ok, cl, rel) ==
    LET chk == ReleaseExists("cert-manager", ok.ReleaseExists, cl, rel)
        probe == Call("helm status",
                      HelmStatus("cert-manager", ok.ReleaseExists, cl, rel))
    IN  IF chk.err # ""
        THEN Result("failed to check cert-manager release", <<probe>>, cl, rel)
        ELSE IF ~chk.exists
        THEN Result("", <<probe>>, cl, rel)
        ELSE Result("",
                    <<probe,
                      Call("helm status",
                           HelmStatus("cert-manager", ok.GetHelmChartStatus,
                                      cl, rel)),
                      Call("kubectl get pods", ok.GetPods),
                      Call("kubectl get crd", ok.GetResources)>>,
                    cl, rel)

\* ArgoCD.Up once mg.Deps(Kind.Up) has run with the result k.
ArgoCDUpAfter(k, ok, rel) ==
    LET add == Call("helm repo add", ok.EnsureHelmRepo)
        upd == Call("helm repo update", ok.RepoUpdate)
        ns == Call("kubectl create namespace", ok.CreateNamespace)
        chk == ReleaseExists("argo-cd", ok.ReleaseExists, k.clusters, rel)
        probe == Call("helm status",
                      HelmStatus("argo-cd", ok.ReleaseExists, k.clusters, rel))
        up == UpgradeHelmChart("argo-cd", ok.UpgradeHelmChart, k.clusters, rel)
        inst == InstallHelmChart("argo-cd", ok.InstallHelmChart, k.clusters, rel)
        pre == k.calls \o <<add, upd, ns, probe>>
    IN  IF k.err # ""
        THEN Result(k.err, k.calls, k.clusters, rel)
        ELSE IF ~ok.EnsureHelmRepo
        THEN Result("failed to add ArgoCD Helm repository",
                    Append(k.calls, add), k.clusters, rel)
        ELSE IF ~ok.RepoUpdate
        THEN Result("failed to update Helm repositories",
                    k.calls \o <<add, upd>>, k.clusters, rel)
        ELSE IF chk.err # ""
        THEN Result("failed to check ArgoCD installation", pre, k.clusters,
                    rel)
        ELSE IF chk.exists
        THEN Result(IF up.ok THEN "" ELSE "failed to upgrade ArgoCD",
                    Append(pre, Call("helm upgrade", up.ok)),
                    k.clusters, up.releases)
        ELSE Result(IF inst.ok THEN "" ELSE "failed to install ArgoCD",
                    Append(pre, Call("helm install", inst.ok)),
                    k.clusters, inst.releases)

\* ArgoCD.Up.
ArgoCDUp(ok, cl, rel) == ArgoCDUpAfter(DepsKindUp(ok, cl), ok, rel)

\* ArgoCD.Down.
ArgoCDDown(ok, cl, rel) ==
    LET chk == ReleaseExists("argo-cd", ok.ReleaseExists, cl, rel)
        probe == Call("helm status",
                      HelmStatus("argo-cd", ok.ReleaseExists, cl, rel))
        un == UninstallHelmChart("argo-cd", ok.UninstallHelmChart, cl, rel)
    IN  IF chk.err # ""
        THEN Result("failed to check ArgoCD installation", <<probe>>, cl, rel)
        ELSE IF ~chk.exists
        THEN Result("", <<probe>>, cl, rel)
        ELSE IF ~un.ok
        THEN Result("failed to uninstall ArgoCD",
                    <<probe, Call("helm uninstall", FALSE)>>, cl, rel)
        ELSE Result("", <<probe, Call("helm uninstall", TRUE)>>, cl,
                    un.releases)

\* ArgoCD.UpClean.
ArgoCDUpClean(okDown, okUp, cl, rel) ==
    LET d == ArgoCDDown(okDown, cl, rel)
        u == ArgoCDUp(okUp, d.clusters, d.releases)
    IN  DownSleepUp(d, u, "failed to uninstall existing ArgoCD",
                    "failed to install ArgoCD")

\* ArgoCD.Status.
ArgoCDStatus(ok, cl, rel) ==
    LET chk == ReleaseExists("argo-cd", ok.ReleaseExists, cl, rel)
        probe == Call("helm status",
                      HelmStatus("argo-cd", ok.ReleaseExists, cl, rel))
    IN  IF chk.err # ""
        THEN Result("failed to check ArgoCD release", <<probe>>, cl, rel)
        ELSE IF ~chk.exists
        THEN Result("", <<probe>>, cl, rel)
        ELSE Result("",
                    <<probe,
                      Call("helm status",
                           HelmStatus("argo-cd", ok.GetHelmChartStatus, cl,
                                      rel)),
                      Call("kubectl get pods", ok.GetPods),
                      Call("kubectl get svc", ok.GetResources)>>,
                    cl, rel)

\* Kind.Status returning the error of a failed cluster-info.
KindStatusStrict(ok, cl, rel) ==
    LET chk == ClusterExists(clusterName, ok.ClusterExists, cl)
        list == Call("kind get clusters", ok.ClusterExists)
        info == Call("kubectl cluster-info", ok.GetClusterInfo)
        nodes == Call("kubectl get nodes", ok.GetNodeStatus)
    IN  IF chk.err # ""
        THEN Result("failed to check cluster existence", <<list>>, cl, rel)
        ELSE IF ~chk.exists
        THEN Result("", <<list>>, cl, rel)
        ELSE IF ~info.ok
        THEN Result("could not connect to cluster", <<list, info>>, cl, rel)
        ELSE Result("", <<list, info, nodes>>, cl, rel)

\* Kind.Status.
KindStatus(ok, cl, rel) ==
    LET chk == ClusterExists(clusterName, ok.ClusterExists, cl)
        list == Call("kind get clusters", ok.ClusterExists)
        info == Call("kubectl cluster-info", ok.GetClusterInfo)
        nodes == Call("kubectl get nodes", ok.GetNodeStatus)
    IN  IF chk.err # ""
        THEN Result("failed to check cluster existence", <<list>>, cl, rel)
        ELSE IF ~chk.exists
        THEN Result("", <<list>>, cl, rel)
        ELSE IF ~info.ok
        THEN Result("", <<list, info>>, cl, rel)
        ELSE Result("", <<list, info, nodes>>, cl, rel)

\* Kind.UpClean keeping a cluster that is there, as Kind.Up does.
KindUpCleanReuses(ok, cl, rel) ==
    LET k == KindUp(ok.ClusterExists, ok.CreateCluster, ok.ExportKubeconfig,
                    cl)
    IN  Result(k.err, KindCalls(k.calls, ok), k.clusters, rel)

\* Kind.UpClean.
KindUpClean(ok, cl, rel) ==
    LET chk == ClusterExists(clusterName, ok.ClusterExists, cl)
        list == Call("kind get clusters", ok.ClusterExists)
        del == Call("kind delete cluster", ok.DeleteCluster)
        pre == IF chk.exists THEN <<list, del>> ELSE <<list>>
        gone == IF chk.exists THEN DeleteCluster(clusterName, cl) ELSE cl
        left == IF chk.exists THEN {} ELSE rel
        create == Call("kind create cluster", ok.CreateCluster)
        export == Call("kind export kubeconfig", ok.ExportKubeconfig)
    IN  IF chk.err # ""
        THEN Result("failed to check cluster existence", <<list>>, cl, rel)
        ELSE IF chk.exists /\ ~del.ok
        THEN Result("failed to delete existing cluster", pre, cl, rel)
        ELSE IF ~create.ok
        THEN Result("failed to create cluster", Append(pre, create), gone,
                    left)
        ELSE IF ~export.ok
        THEN Result("failed to export kubeconfig",
                    pre \o <<create, export>>,
                    CreateCluster(clusterName, gone), left)
        ELSE Result("", pre \o <<create, export>>,
                    CreateCluster(clusterName, gone), left)

\* No verb is running.
NoRun == [verb |-> "none", pre |-> [clusters |-> <<>>, releases |-> {}],
          calls |-> <<>>, err |-> "", slept |-> 0]

\* The steps of each verb.
KindUpSteps == {"ClusterExists", "CreateCluster", "ExportKubeconfig"}
KindDownSteps == {"ClusterExists", "DeleteCluster"}
KindUpCleanSteps == KindUpSteps \cup KindDownSteps
KindStatusSteps == {"ClusterExists", "GetClusterInfo", "GetNodeStatus"}
UpSteps == KindUpSteps \cup {"CreateNamespace", "ReleaseExists", "UpgradeHelmChart", "InstallHelmChart"}
ArgoCDUpSteps == UpSteps \cup {"EnsureHelmRepo", "RepoUpdate"}
CertManagerDownSteps == {"ReleaseExists", "UninstallHelmChart", "DeleteCRDs", "DeleteAPIService"}
ArgoCDDownSteps == {"ReleaseExists", "UninstallHelmChart"}
StatusSteps == {"ReleaseExists", "GetHelmChartStatus", "GetPods", "GetResources"}

\* What the commands of each verb may meet.
KindUpOutcomes == Outcomes(KindUpSteps)
KindDownOutcomes == Outcomes(KindDownSteps)
KindUpCleanOutcomes == Outcomes(KindUpCleanSteps)
KindStatusOutcomes == Outcomes(KindStatusSteps)
UpOutcomes == Outcomes(UpSteps)
ArgoCDUpOutcomes == Outcomes(ArgoCDUpSteps)
CertManagerDownOutcomes == Outcomes(CertManagerDownSteps)
ArgoCDDownOutcomes == Outcomes(ArgoCDDownSteps)
StatusOutcomes == Outcomes(StatusSteps)

\* `mage kind:up`.
MageKindUp(ok) ==
    LET k == KindUp(ok.ClusterExists, ok.CreateCluster, ok.ExportKubeconfig,
                        clusters)
            r == Result(k.err, KindCalls(k.calls, ok), k.clusters, releases)
    IN  /\ run = NoRun
        /\ clusters' = r.clusters
        /\ releases' = r.releases
        /\ run' = [verb |-> "Kind.Up",
                   pre |-> [clusters |-> clusters, releases |-> releases],
                   calls |-> r.calls, err |-> r.err, slept |-> r.slept]
        /\ UNCHANGED <<pfVars, runs, pollVars, raceVars, listVars>>

\* `mage kind:down`.
MageKindDown(ok) ==
    LET k == KindDown(ok.ClusterExists, ok.DeleteCluster, clusters)
            r == Result(k.err, KindCalls(k.calls, ok), k.clusters,
                        IF Present(k.clusters) THEN releases ELSE {})
    IN  /\ run = NoRun
        /\ clusters' = r.clusters
        /\ releases' = r.releases
        /\ run' = [verb |-> "Kind.Down",
                   pre |-> [clusters |-> clusters, releases |-> releases],
                   calls |-> r.calls, err |-> r.err, slept |-> r.slept]
        /\ UNCHANGED <<pfVars, runs, pollVars, raceVars, listVars>>

\* `mage kind:upclean`.
MageKindUpClean(ok) ==
    LET r == KindUpClean(ok, clusters, releases)
    IN  /\ run = NoRun
        /\ clusters' = r.clusters
        /\ releases' = r.releases
        /\ run' = [verb |-> "Kind.UpClean",
                   pre |-> [clusters |-> clusters, releases |-> releases],
                   calls |-> r.calls, err |-> r.err, slept |-> r.slept]
        /\ UNCHANGED <<pfVars, runs, pollVars, raceVars, listVars>>

\* `mage kind:status`.
MageKindStatus(ok) ==
    LET r == KindStatus(ok, clusters, releases)
    IN  /\ run = NoRun
        /\ clusters' = r.clusters
        /\ releases' = r.releases
        /\ run' = [verb |-> "Kind.Status",
                   pre |-> [clusters |-> clusters, releases |-> releases],
                   calls |-> r.calls, err |-> r.err, slept |-> r.slept]
        /\ UNCHANGED <<pfVars, runs, pollVars, raceVars, listVars>>

\* `mage certmanager:up`.
MageCertManagerUp(ok) ==
    LET r == CertManagerUp(ok, clusters, releases)
    IN  /\ run = NoRun
        /\ clusters' = r.clusters
        /\ releases' = r.releases
        /\ run' = [verb |-> "CertManager.Up",
                   pre |-> [clusters |-> clusters, releases |-> releases],
                   calls |-> r.calls, err |-> r.err, slept |-> r.slept]
        /\ UNCHANGED <<pfVars, runs, pollVars, raceVars, listVars>>

\* `mage certmanager:down`.
MageCertManagerDown(ok) ==
    LET r == CertManagerDown(ok, clusters, releases)
    IN  /\ run = NoRun
        /\ clusters' = r.clusters
        /\ releases' = r.releases
        /\ run' = [verb |-> "CertManager.Down",
                   pre |-> [clusters |-> clusters, releases |-> releases],
                   calls |-> r.calls, err |-> r.err, slept |-> r.slept]
        /\ UNCHANGED <<pfVars, runs, pollVars, raceVars, listVars>>

\* `mage certmanager:upclean`.
MageCertManagerUpClean(okDown, okUp) ==
    LET r == CertManagerUpClean(okDown, okUp, clusters, releases)
    IN  /\ run = NoRun
        /\ clusters' = r.clusters
        /\ releases' = r.releases
        /\ run' = [verb |-> "CertManager.UpClean",
                   pre |-> [clusters |-> clusters, releases |-> releases],
                   calls |-> r.calls, err |-> r.err, slept |-> r.slept]
        /\ UNCHANGED <<pfVars, runs, pollVars, raceVars, listVars>>

\* `mage certmanager:status`.
MageCertManagerStatus(ok) ==
    LET r == CertManagerStatus(ok, clusters, releases)
    IN  /\ run = NoRun
        /\ clusters' = r.clusters
        /\ releases' = r.releases
        /\ run' = [verb |-> "CertManager.Status",
                   pre |-> [clusters |-> clusters, releases |-> releases],
                   calls |-> r.calls, err |-> r.err, slept |-> r.slept]
        /\ UNCHANGED <<pfVars, runs, pollVars, raceVars, listVars>>

\* `mage argocd:up`.
MageArgoCDUp(ok) ==
    LET r == ArgoCDUp(ok, clusters, releases)
    IN  /\ run = NoRun
        /\ clusters' = r.clusters
        /\ releases' = r.releases
        /\ run' = [verb |-> "ArgoCD.Up",
                   pre |-> [clusters |-> clusters, releases |-> releases],
                   calls |-> r.calls, err |-> r.err, slept |-> r.slept]
        /\ UNCHANGED <<pfVars, runs, pollVars, raceVars, listVars>>

\* `mage argocd:down`.
MageArgoCDDown(ok) ==
    LET r == ArgoCDDown(ok, clusters, releases)
    IN  /\ run = NoRun
        /\ clusters' = r.clusters
        /\ releases' = r.releases
        /\ run' = [verb |-> "ArgoCD.Down",
                   pre |-> [clusters |-> clusters, releases |-> releases],
                   calls |-> r.calls, err |-> r.err, slept |-> r.slept]
        /\ UNCHANGED <<pfVars, runs, pollVars, raceVars, listVars>>

\* `mage argocd:upclean`.
MageArgoCDUpClean(okDown, okUp) ==
    LET r == ArgoCDUpClean(okDown, okUp, clusters, releases)
    IN  /\ run = NoRun
        /\ clusters' = r.clusters
        /\ releases' = r.releases
        /\ run' = [verb |-> "ArgoCD.UpClean",
                   pre |-> [clusters |-> clusters, releases |-> releases],
                   calls |-> r.calls, err |-> r.err, slept |-> r.slept]
        /\ UNCHANGED <<pfVars, runs, pollVars, raceVars, listVars>>

\* `mage argocd:status`.
MageArgoCDStatus(ok) ==
    LET r == ArgoCDStatus(ok, clusters, releases)
    IN  /\ run = NoRun
        /\ clusters' = r.clusters
        /\ releases' = r.releases
        /\ run' = [verb |-> "ArgoCD.Status",
                   pre |-> [clusters |-> clusters, releases |-> releases],
                   calls |-> r.calls, err |-> r.err, slept |-> r.slept]
        /\ UNCHANGED <<pfVars, runs, pollVars, raceVars, listVars>>

\* The invocation ends: the next one knows nothing of it but the state of
\* the machine.
MageExit ==
    /\ run # NoRun
    /\ run' = NoRun
    /\ UNCHANGED <<pfVars, kindVars, releases, pollVars, raceVars, listVars>>

InitMage ==
    /\ clusters \in {<<>>} \cup {<<c>> : c \in OtherClusters}
    /\ releases = {}
    /\ run = NoRun

NextMage ==
    \/ \E ok \in KindUpOutcomes : MageKindUp(ok)
    \/ \E ok \in KindDownOutcomes : MageKindDown(ok)
    \/ \E ok \in KindUpCleanOutcomes : MageKindUpClean(ok)
    \/ \E ok \in KindStatusOutcomes : MageKindStatus(ok)
    \/ \E ok \in UpOutcomes : MageCertManagerUp(ok)
    \/ \E ok \in CertManagerDownOutcomes : MageCertManagerDown(ok)
    \/ \E okDown \in CertManagerDownOutcomes, okUp \in UpOutcomes :
          MageCertManagerUpClean(okDown, okUp)
    \/ \E ok \in StatusOutcomes : MageCertManagerStatus(ok)
    \/ \E ok \in ArgoCDUpOutcomes : MageArgoCDUp(ok)
    \/ \E ok \in ArgoCDDownOutcomes : MageArgoCDDown(ok)
    \/ \E okDown \in ArgoCDDownOutcomes, okUp \in ArgoCDUpOutcomes :
          MageArgoCDUpClean(okDown, okUp)
    \/ \E ok \in StatusOutcomes : MageArgoCDStatus(ok)
    \/ MageExit

----------------------------------------------------------------------------
(* Specifications.                                                         *)

IdleKind == /\ clusters = <<>>
            /\ runs = <<>>

IdlePoll == poll = NoPoll

IdleMage == /\ releases = {}
            /\ run = NoRun

IdleRace == callers = <<>>

IdleList == listing = NoListing

\* The port-forward process manager, called sequentially.
Init ==
    InitPortForward /\ IdleKind /\ IdlePoll /\ IdleMage /\ IdleRace /\ IdleList

Next == NextPortForward

Spec == Init /\ [][Next]_vars

IdlePortForward ==
    /\ files = [n \in Paths |-> Absent]
    /\ procs = InitProcs
    /\ nextPid = FirstPid
    /\ last = [op |-> "none", key |-> NoKey, running |-> FALSE, pid |-> 0,
               err |-> "", sigs |-> <<>>, spawned |-> 0, pre |-> files,
               preProcs |-> procs]

\* The readiness polls.
InitPollOnly ==
    InitPoll /\ IdlePortForward /\ IdleKind /\ IdleMage /\ IdleRace /\ IdleList

SpecPoll == InitPollOnly /\ [][NextPoll]_vars

\* The Kind verbs, run one after the other.
InitKindOnly ==
    InitKind /\ IdlePortForward /\ IdlePoll /\ IdleMage /\ IdleRace /\ IdleList

SpecKind == InitKindOnly /\ [][NextKind]_vars

\* The verbs, one `mage` invocation after the other.
InitMageOnly ==
    /\ InitMage /\ runs = <<>>
    /\ IdlePortForward /\ IdlePoll /\ IdleRace /\ IdleList

SpecMage == InitMageOnly /\ [][NextMage]_vars

\* The port-forward manager, from an empty data directory, on a machine
\* that hands pids out again.
InitReuse ==
    IdlePortForward /\ IdleKind /\ IdlePoll /\ IdleMage /\ IdleRace /\ IdleList

SpecReuse == InitReuse /\ [][NextReuse]_vars

\* Two concurrent callers of the port-forward manager.
InitRaceOnly ==
    InitRace /\ InitPortForward /\ IdleKind /\ IdlePoll /\ IdleMage /\ IdleList

SpecRace == InitRaceOnly /\ [][NextRace]_vars

\* The port-forward manager, called sequentially, from an empty data
\* directory.
InitFresh ==
    IdlePortForward /\ IdleKind /\ IdlePoll /\ IdleMage /\ IdleRace /\ IdleList

SpecFresh == InitFresh /\ [][NextPortForward]_vars

\* ClusterExists on its own, over the listings kind may print.
InitListOnly ==
    InitList /\ IdlePortForward /\ IdleKind /\ IdlePoll /\ IdleMage /\ IdleRace

SpecList == InitListOnly /\ [][NextList]_vars

----------------------------------------------------------------------------
(* Properties of the port-forward process manager.                         *)

\* The PID file of the last call's key, now and before the call.
LastFile == files[PidFileOf(last.key)]
LastPreFile == last.pre[PidFileOf(last.key)]

\* Text that is no decimal integer: after an optional sign, nothing, or
\* something that is not a digit.
NotAnInteger(s) ==
    LET body == IF s # <<>> /\ Head(s) \in {"+", "-"} THEN Tail(s) ELSE s
    IN  body = <<>> \/ \E i \in 1..Len(body) : ~IsDigit(body[i])

\* The signals of the last call that deliver something (signal 0 probes).
LastDelivered == {i \in 1..Len(last.sigs) : last.sigs[i][2] # "0"}

\* C1: when StartPortForward returns success with pid p, the key's PID file
\* holds exactly the decimal text of p, whatever was there before, and
\* while that process is alive IsPortForwardRunning on the state Start left
\* returns (running = true, pid = p, no error).
C1_StartRecordsPid ==
    (last.op = "StartPortForward" /\ last.err = "") =>
        /\ last.pid = last.spawned
        /\ LastFile = Regular(Itoa(last.pid))
        /\ procs[last.pid].alive =>
              LET r == IsPortForwardRunning(last.key[1], last.key[2],
                                            files, procs)
              IN  r.running /\ r.pid = last.pid /\ r.err = ""

\* C1, its case: a Start that succeeded over a PID file left by something
\* else, with a two-digit pid, the process alive.
C1_Witness ==
    /\ last.op = "StartPortForward" /\ last.err = ""
    /\ LastPreFile.kind = "file" /\ LastPreFile.data # <<>>
    /\ last.pid >= 10
    /\ procs[last.pid].alive

\* The live port-forward processes the tool started for key k.
Tunnels(k) == {p \in Pids : procs[p].alive /\ procs[p].key = k}

\* The pid the PID file of key k records, 0 when it records none.
Recorded(k) ==
    LET f == files[PidFileOf(k)]
        parsed == Atoi(TrimSpace(f.data))
    IN  IF f.kind = "file" /\ parsed.ok THEN parsed.val ELSE 0

\* C2: after any sequence of calls at most one port-forward process started
\* for a key is alive, and every such live process is the one the key's PID
\* file records.
C2_OneTrackedTunnel ==
    \A k \in Keys :
        /\ Cardinality(Tunnels(k)) <= 1
        /\ \A p \in Tunnels(k) : Recorded(k) = p

\* C3: StopPortForward on a running session (the PID file names a live
\* process the tool started for the key) leaves no PID file, whether or not
\* the termination signal could be sent.
C3_StopRemovesPidFile ==
    (/\ last.op = "StopPortForward"
     /\ last.running
     /\ last.pid \in Pids
     /\ last.preProcs[last.pid].key = last.key) =>
        LastFile = Absent

\* The session of the last call's key was not running when the call began:
\* no PID file, or a PID file naming a process that was not alive.
LastNotRunning ==
    \/ LastPreFile = Absent
    \/ /\ LastPreFile.kind = "file"
       /\ ~NotAnInteger(TrimSpace(LastPreFile.data))
       /\ LET pid == DigitsValue(TrimSpace(LastPreFile.data), 0)
          IN  ~(pid \in Pids /\ last.preProcs[pid].alive)

\* C4 as stated: StopPortForward on a session that is not running returns
\* "port forwarding is not running", sends no signal and leaves every file
\* as it was.
C4_StopNotRunningNoMutation ==
    (last.op = "StopPortForward" /\ LastNotRunning) =>
        /\ last.err = "port forwarding is not running"
        /\ LastDelivered = {}
        /\ files = last.pre

\* C4 as amended: StopPortForward on a session that is not running returns
\* "port forwarding is not running" and sends no signal; the only file it
\* may change is the key's own PID file, which it removes when it names a
\* process that is not alive; with no PID file nothing changes.
C4_StopNotRunningRemovesStale ==
    (last.op = "StopPortForward" /\ LastNotRunning) =>
        /\ last.err = "port forwarding is not running"
        /\ LastDelivered = {}
        /\ files = [last.pre EXCEPT ![PidFileOf(last.key)] = Absent]
        /\ \A p \in Pids : procs[p].alive => last.preProcs[p].alive

\* C4, its case: a Stop that met the PID file of a process that had exited.
C4_Witness ==
    /\ last.op = "StopPortForward"
    /\ LastNotRunning
    /\ LastPreFile # Absent
    /\ last.err = "port forwarding is not running"

\* The last call met a PID file written by a successful Start for its key
\* whose process had died: the pid, 0 when that is not the case.
LastStalePid ==
    LET S == {p \in Pids : /\ LastPreFile = Regular(Itoa(p))
                           /\ last.preProcs[p].key = last.key
                           /\ ~last.preProcs[p].alive}
    IN  IF S = {} THEN 0 ELSE CHOOSE p \in S : TRUE

\* C5: when the process a successful Start recorded has died, the next
\* IsPortForwardRunning returns (running = false, no error) and removes the
\* PID file, and one more IsPortForwardRunning on the state it left returns
\* (running = false, no error) too, the PID file still absent.
C5_StaleFileSelfHeals ==
    (last.op = "IsPortForwardRunning" /\ LastStalePid # 0) =>
        /\ ~last.running /\ last.pid = 0 /\ last.err = ""
        /\ LastFile = Absent
        /\ LET r == IsPortForwardRunning(last.key[1], last.key[2],
                                         files, procs)
           IN  /\ ~r.running /\ r.pid = 0 /\ r.err = ""
               /\ r.files = files

\* C5, its case: a check that met the PID file of a port-forward process
\* that had been killed.
C5_Witness ==
    /\ last.op = "IsPortForwardRunning"
    /\ LastStalePid >= 10
    /\ LastFile = Absent

\* C6: a call on one key changes no PID file but that key's, so a key never
\* has a second PID file; and when IsPortForwardRunning returns, the key's
\* PID file names no process that is dead: if it holds a pid, that process
\* was alive when the check was made.
C6_NoStaleFileAfterCheck ==
    /\ \A n \in Paths :
          (last.op # "none" /\ n # PidFileOf(last.key)) =>
              files[n] = last.pre[n]
    /\ (last.op = "IsPortForwardRunning"
        /\ LastFile.kind = "file"
        /\ ~NotAnInteger(TrimSpace(LastFile.data))) =>
          LET pid == DigitsValue(TrimSpace(LastFile.data), 0)
          IN  pid \in Pids /\ last.preProcs[pid].alive

\* C6, its case: a check that found the PID file naming a dead process and
\* left none, while another key has a PID file.
C6_Witness ==
    /\ last.op = "IsPortForwardRunning"
    /\ LastPreFile.kind = "file"
    /\ ~NotAnInteger(TrimSpace(LastPreFile.data))
    /\ LastFile = Absent
    /\ \E n \in Paths : n # PidFileOf(last.key) /\ files[n].kind = "file"

\* C7: a StartPortForward whose PID file write fails has killed the process
\* it spawned and returns pid 0 with an error; one whose directory creation
\* or spawn fails has started no process and changed no file; so no process
\* a Start spawned is alive when Start returns without the PID file holding
\* its pid.
C7_NoUntrackedSpawn ==
    (last.op = "StartPortForward") =>
        /\ (last.err = "failed to save PID file") =>
              /\ last.pid = 0
              /\ last.spawned \in Pids
              /\ ~procs[last.spawned].alive
              /\ last.sigs = <<<<last.spawned, "KILL">>>>
        /\ (last.err \in {"failed to create kargo data directory",
                          "failed to start port-forward"}) =>
              /\ last.pid = 0
              /\ last.spawned = 0
              /\ files = last.pre
              /\ \A p \in Pids : procs[p].alive => last.preProcs[p].alive
        /\ (last.spawned \in Pids /\ procs[last.spawned].alive) =>
              /\ last.err = ""
              /\ LastFile = Regular(Itoa(last.spawned))

\* C7, its case: a Start that spawned a process and could not write the
\* PID file.
C7_Witness ==
    /\ last.op = "StartPortForward"
    /\ last.err = "failed to save PID file"
    /\ last.spawned \in Pids
    /\ ~procs[last.spawned].alive

\* C8: when the PID file exists and its trimmed text is no integer,
\* IsPortForwardRunning returns an error, StopPortForward returns an error
\* that is not "port forwarding is not running" and sends no signal, and
\* both leave the file as it is.
C8_MalformedIsAnError ==
    (/\ last.op \in {"IsPortForwardRunning", "StopPortForward"}
     /\ LastPreFile.kind = "file"
     /\ NotAnInteger(TrimSpace(LastPreFile.data))) =>
        /\ last.err # ""
        /\ last.err # "port forwarding is not running"
        /\ ~last.running
        /\ last.sigs = <<>>
        /\ files = last.pre

\* C8, its case: a Stop that met a PID file holding digits followed by
\* something else.
C8_Witness ==
    /\ last.op = "StopPortForward"
    /\ LastPreFile.kind = "file"
    /\ NotAnInteger(TrimSpace(LastPreFile.data))
    /\ LastPreFile.data # <<>>
    /\ last.err = "failed to check port forwarding status"

\* The two callers raced: both were told "not running" for the same key,
\* and both StartPortForward calls returned a pid and no error.
BothStarted ==
    /\ callers[1].pc = "done" /\ callers[2].pc = "done"
    /\ callers[1].key = callers[2].key
    /\ ~callers[1].running /\ ~callers[2].running
    /\ callers[1].err = "" /\ callers[2].err = ""
    /\ callers[1].pid # 0 /\ callers[2].pid # 0

\* C17: when two concurrent callers of check-then-start for one key were
\* both told "not running" and both started, there are two live
\* port-forward processes for the key, and the key's PID file records one
\* of them and not the other.
C17_CheckThenStartRaces ==
    BothStarted =>
        LET k == callers[1].key
            p1 == callers[1].pid
            p2 == callers[2].pid
        IN  /\ p1 # p2
            /\ Tunnels(k) = {p1, p2}
            /\ files[PidFileOf(k)] \in {Regular(Itoa(p1)), Regular(Itoa(p2))}
            /\ Recorded(k) \in {p1, p2}
            /\ \A n \in Paths : files[n].kind = "file" =>
                  files[n].data # Itoa(CHOOSE p \in {p1, p2} : p # Recorded(k))

\* C17, its case: the interleaving check, check, start, start.
C17_Witness ==
    /\ BothStarted
    /\ Cardinality(Tunnels(callers[1].key)) = 2
    /\ Recorded(callers[1].key) = callers[2].pid

\* No process was ever started for the key k.
NeverStarted(k) == \A p \in Pids : last.preProcs[p].key # k

\* C18: IsPortForwardRunning leaves every file as it was or removes the PID
\* file of its key; it removes it only when the file held a pid that names
\* no live process; it leaves the PID file of every other key as it was;
\* and for a key no process was ever started for it returns (false, 0,
\* nil) and leaves no PID file.
C18_CheckOnlyDeletesOwnStaleFile ==
    (last.op = "IsPortForwardRunning") =>
        /\ \A n \in Paths :
              \/ files[n] = last.pre[n]
              \/ n = PidFileOf(last.key) /\ files[n] = Absent
        /\ (LastFile # LastPreFile) =>
              /\ LastPreFile.kind = "file"
              /\ ~NotAnInteger(TrimSpace(LastPreFile.data))
              /\ LET pid == DigitsValue(TrimSpace(LastPreFile.data), 0)
                 IN  ~(pid \in Pids /\ last.preProcs[pid].alive)
        /\ \A k \in Keys \ {last.key} :
              files[PidFileOf(k)] = last.pre[PidFileOf(k)]
        /\ NeverStarted(last.key) =>
              /\ ~last.running
              /\ last.pid = 0
              /\ last.err = ""
              /\ LastFile = Absent

\* C19: when StopPortForward sends SIGTERM to the process group of the pid
\* its PID file records, the process of that pid is one StartPortForward
\* started.
C19_StopSignalsOnlyOwnGroup ==
    (/\ last.op = "StopPortForward"
     /\ \E i \in 1..Len(last.sigs) : last.sigs[i][2] = "TERM") =>
        last.preProcs[last.pid].key # NoKey

----------------------------------------------------------------------------
(* Properties of the verbs.                                                *)

\* Where in the running verb's commands cmd is.
At(cmd) == {i \in 1..Len(run.calls) : run.calls[i].cmd = cmd}

\* Where the commands of the set cmds are.
AtAny(cmds) == {i \in 1..Len(run.calls) : run.calls[i].cmd \in cmds}

\* The commands that fail.
FailedAt == {i \in 1..Len(run.calls) : ~run.calls[i].ok}

KindCommands == {"kind get clusters", "kind create cluster",
                 "kind delete cluster", "kind export kubeconfig"}

InstallOrUpgrade == {"helm install", "helm upgrade"}

CheckErrors == {"failed to check cert-manager installation",
                "failed to check ArgoCD installation",
                "failed to check cert-manager release",
                "failed to check ArgoCD release"}

\* C12: no verb returns the error of a release existence check; an add-on
\* Up whose `helm status` exits non-zero installs, and one whose `helm
\* status` exits zero upgrades, also when the probe failed with the release
\* installed.
C12_ReleaseCheckNeverFails ==
    /\ run.err \notin CheckErrors
    /\ (run.verb \in {"CertManager.Up", "ArgoCD.Up"}) =>
          \A p \in At("helm status") :
              /\ Len(run.calls) > p
              /\ ~run.calls[p].ok => run.calls[p + 1].cmd = "helm install"
              /\ run.calls[p].ok => run.calls[p + 1].cmd = "helm upgrade"

\* C12, its case: the probe of an Up fails with the release installed in
\* the cluster, and the Up runs helm install.
C12_Witness ==
    /\ run.verb = "CertManager.Up"
    /\ Present(run.pre.clusters)
    /\ "cert-manager" \in run.pre.releases
    /\ \E p \in At("helm status") :
          /\ ~run.calls[p].ok
          /\ run.calls[p + 1].cmd = "helm install"

DownCommands == {"helm status", "helm uninstall", "kubectl delete crd",
                 "kubectl delete apiservice"}

UpCommands == {"kind get clusters", "kind create cluster",
               "kind export kubeconfig", "helm repo add", "helm repo update",
               "kubectl create namespace", "helm status", "helm install",
               "helm upgrade"}

\* C13: an UpClean whose Down failed (its uninstall failed) returns the
\* error without sleeping and without any command of Up; every other
\* UpClean, the one whose Down found no release too, runs Down's commands,
\* then sleeps once, for 5 seconds, then starts Up, whose commands all come
\* after the sleep.
C13_DownSleepUp ==
    (run.verb \in {"CertManager.UpClean", "ArgoCD.UpClean"}) =>
        IF \E i \in At("helm uninstall") : ~run.calls[i].ok
        THEN /\ run.err \in {"failed to uninstall existing cert-manager",
                             "failed to uninstall existing ArgoCD"}
             /\ At("time.Sleep") = {}
             /\ run.slept = 0
             /\ \A i \in 1..Len(run.calls) : run.calls[i].cmd \in DownCommands
             /\ run.calls[Len(run.calls)].cmd = "helm uninstall"
        ELSE /\ Cardinality(At("time.Sleep")) = 1
             /\ run.slept = 5
             /\ \A s \in At("time.Sleep") :
                   /\ s > 1
                   /\ \A i \in 1..(s - 1) : run.calls[i].cmd \in DownCommands
                   /\ \A i \in (s + 1)..Len(run.calls) :
                         run.calls[i].cmd \in UpCommands
                   /\ Len(run.calls) > s
                   /\ run.calls[s + 1].cmd = "kind get clusters"
                   /\ ~run.calls[1].ok => s = 2

\* C13, its case: an UpClean whose Down found no release, and which slept
\* and installed.
C13_Witness ==
    /\ run.verb = "CertManager.UpClean"
    /\ run.calls[1] = Call("helm status", FALSE)
    /\ run.calls[2].cmd = "time.Sleep"
    /\ At("helm install") # {}
    /\ run.err = ""

\* C14: a Down whose check reports the resource absent runs nothing more
\* and returns nil; one whose check reports it present runs the uninstall
\* (for Kind, the delete) once, and returns an error exactly when that
\* fails; CertManager.Down runs its two cleanup commands after a successful
\* uninstall and in no other case, and returns nil whatever they do.
C14_DownNoOpOrUninstall ==
    /\ (run.verb \in {"CertManager.Down", "ArgoCD.Down"}) =>
          /\ run.calls[1].cmd = "helm status"
          /\ ~run.calls[1].ok => (Len(run.calls) = 1 /\ run.err = "")
          /\ run.calls[1].ok =>
                /\ Len(run.calls) >= 2
                /\ run.calls[2].cmd = "helm uninstall"
                /\ At("helm uninstall") = {2}
                /\ (run.err # "") <=> ~run.calls[2].ok
                /\ ~run.calls[2].ok => Len(run.calls) = 2
          /\ AtAny({"kubectl delete crd", "kubectl delete apiservice"}) =
                IF /\ run.verb = "CertManager.Down"
                   /\ \E i \in At("helm uninstall") : run.calls[i].ok
                THEN {3, 4}
                ELSE {}
    /\ (run.verb = "Kind.Down" /\ run.calls[1].ok) =>
          IF Present(run.pre.clusters)
          THEN /\ At("kind delete cluster") = {2}
               /\ (run.err # "") <=> ~run.calls[2].ok
          ELSE Len(run.calls) = 1 /\ run.err = ""

\* C14, its case: a CertManager.Down that uninstalled, whose two cleanup
\* commands both failed, and which returned nil.
C14_Witness ==
    /\ run.verb = "CertManager.Down"
    /\ run.err = ""
    /\ Len(run.calls) = 4
    /\ run.calls[2] = Call("helm uninstall", TRUE)
    /\ ~run.calls[3].ok
    /\ ~run.calls[4].ok

StatusVerbs == {"Kind.Status", "CertManager.Status", "ArgoCD.Status"}

InspectionCommands == {"kubectl cluster-info", "kubectl get nodes",
                       "helm status", "kubectl get pods", "kubectl get crd",
                       "kubectl get svc"}

\* C15: a Status runs only the cluster listing and inspection commands and
\* leaves the clusters and the releases as they were; whichever of its
\* inspection commands fail, it returns nil.  (It returns an error in one
\* case only, Kind.Status whose cluster listing failed, which is the
\* existence check and no inspection command.)
C15_StatusNeverFatal ==
    (run.verb \in StatusVerbs) =>
        /\ \A i \in 1..Len(run.calls) :
              run.calls[i].cmd \in InspectionCommands \cup {"kind get clusters"}
        /\ clusters = run.pre.clusters
        /\ releases = run.pre.releases
        /\ (\A i \in At("kind get clusters") : run.calls[i].ok) => run.err = ""

\* C15, its case: a Status all of whose inspection commands failed.
C15_Witness ==
    /\ run.verb = "ArgoCD.Status"
    /\ Len(run.calls) = 4
    /\ FailedAt = {2, 3, 4}
    /\ run.err = ""

\* The commands whose failure a verb returns as an error.
FatalCommands == {"kind get clusters", "kind create cluster",
                  "kind delete cluster", "kind export kubeconfig",
                  "helm repo add", "helm repo update", "helm install",
                  "helm upgrade", "helm uninstall"}

\* C16: a verb that returns an error has just run the command that failed,
\* and a command whose failure is fatal is the last one the verb runs: no
\* later step, no second try.  A failed `kind create cluster` is followed
\* by no export, a failed `helm repo add` or `helm repo update` by no
\* namespace creation, existence check, install or upgrade.
C16_FirstFatalErrorEndsVerb ==
    (run.verb # "none") =>
        /\ (run.err # "") =>
              /\ Len(run.calls) \in FailedAt
              /\ run.calls[Len(run.calls)].cmd \in FatalCommands
        /\ \A i \in FailedAt :
              (run.calls[i].cmd \in FatalCommands) =>
                  /\ i = Len(run.calls)
                  /\ run.err # ""
        /\ \A i \in At("kind create cluster") \cap FailedAt :
              \A j \in At("kind export kubeconfig") : j < i
        /\ \A i \in (At("helm repo add") \cup At("helm repo update"))
                        \cap FailedAt :
              \A j \in AtAny({"kubectl create namespace", "helm status",
                              "helm install", "helm upgrade"}) : j < i

\* C16, its case: an ArgoCD.Up whose `helm repo update` failed.
C16_Witness ==
    /\ run.verb = "ArgoCD.Up"
    /\ At("helm repo update") \cap FailedAt # {}
    /\ run.err = "failed to update Helm repositories"

KindVerbs == {"Kind.Up", "Kind.UpClean", "Kind.Down", "Kind.Status"}

\* C21: each of Kind.Up, Kind.UpClean, Kind.Down and Kind.Status begins with
\* the cluster listing, and when the listing fails the verb returns the
\* error "failed to check cluster existence" and has run nothing else: no
\* create, no delete, no export-kubeconfig.
C21_FailedListingIsFatal ==
    (run.verb \in KindVerbs) =>
        /\ run.calls # <<>>
        /\ run.calls[1].cmd = "kind get clusters"
        /\ At("kind get clusters") = {1}
        /\ (1 \in FailedAt) =>
              /\ run.err = "failed to check cluster existence"
              /\ Len(run.calls) = 1
              /\ AtAny({"kind create cluster", "kind delete cluster",
                        "kind export kubeconfig"}) = {}

\* C21, its case: a Kind.UpClean, the cluster there, whose listing failed.
C21_Witness ==
    /\ run.verb = "Kind.UpClean"
    /\ Present(run.pre.clusters)
    /\ 1 \in FailedAt
    /\ run.err = "failed to check cluster existence"
    /\ run.calls = <<Call("kind get clusters", FALSE)>>

\* C22: a Kind.UpClean that succeeds has invoked create-cluster exactly once
\* and export-kubeconfig exactly once, after it, and leaves the cluster
\* there; in every Kind.UpClean delete-cluster is invoked exactly when the
\* listing ran and reported the cluster present, at most once and before
\* any create; when delete fails the verb returns its error and invokes
\* neither create nor export.
C22_UpCleanRecreates ==
    (run.verb = "Kind.UpClean") =>
        /\ (run.err = "") =>
              /\ Cardinality(At("kind create cluster")) = 1
              /\ Cardinality(At("kind export kubeconfig")) = 1
              /\ \A i \in At("kind create cluster") :
                    \A j \in At("kind export kubeconfig") : i < j
              /\ Present(clusters)
        /\ (At("kind delete cluster") # {})
              <=> (1 \notin FailedAt /\ Present(run.pre.clusters))
        /\ Cardinality(At("kind delete cluster")) <= 1
        /\ \A i \in At("kind delete cluster") :
              \A j \in At("kind create cluster") : i < j
        /\ (At("kind delete cluster") \cap FailedAt # {}) =>
              /\ run.err = "failed to delete existing cluster"
              /\ AtAny({"kind create cluster", "kind export kubeconfig"}) = {}
              /\ clusters = run.pre.clusters

\* C22, its case: a Kind.UpClean that found the cluster, deleted it, created
\* it again and exported the kubeconfig.
C22_Witness ==
    /\ run.verb = "Kind.UpClean"
    /\ Present(run.pre.clusters)
    /\ run.err = ""
    /\ run.calls = <<Call("kind get clusters", TRUE),
                     Call("kind delete cluster", TRUE),
                     Call("kind create cluster", TRUE),
                     Call("kind export kubeconfig", TRUE)>>

\* C23: a CertManager.Up or ArgoCD.Up that got to the namespace creation
\* goes on, whether or not `kubectl create namespace` failed, to the release
\* existence check and then to one install or upgrade, its last command;
\* the verb returns nil exactly when that last command succeeded, and
\* otherwise the install or upgrade error, never one of the namespace.
C23_NamespaceFailureNotFatal ==
    (run.verb \in {"CertManager.Up", "ArgoCD.Up"}) =>
        /\ Cardinality(At("kubectl create namespace")) <= 1
        /\ \A n \in At("kubectl create namespace") :
              /\ Len(run.calls) = n + 2
              /\ run.calls[n + 1].cmd = "helm status"
              /\ run.calls[n + 2].cmd \in InstallOrUpgrade
              /\ (run.err = "") <=> run.calls[n + 2].ok
              /\ run.err \in
                    IF run.calls[n + 2].ok THEN {""}
                    ELSE IF run.verb = "CertManager.Up"
                    THEN {"failed to install cert-manager",
                          "failed to upgrade cert-manager"}
                    ELSE {"failed to install ArgoCD",
                          "failed to upgrade ArgoCD"}

\* C23, its case: a CertManager.Up whose namespace creation failed and
\* whose install then succeeded.
C23_Witness ==
    /\ run.verb = "CertManager.Up"
    /\ At("kubectl create namespace") \cap FailedAt # {}
    /\ At("helm install") # {}
    /\ run.err = ""
    /\ "cert-manager" \in releases

----------------------------------------------------------------------------
(* Properties of ClusterExists.                                            *)

\* Positions a..b of the text o are a line of it: they hold no newline, and
\* a newline or an end of the text is on either side (b = a - 1 is an empty
\* line).
IsLine(o, a, b) ==
    /\ a = 1 \/ o[a - 1] = "\n"
    /\ b = Len(o) \/ o[b + 1] = "\n"
    /\ \A i \in a..b : o[i] # "\n"

\* The line a..b of o is name with nothing but white space around it.
NameOnLine(o, a, b, name) ==
    \E p \in a..b :
        /\ p + Len(name) - 1 <= b
        /\ SubSeq(o, p, p + Len(name) - 1) = name
        /\ \A i \in (a..(p - 1)) \cup ((p + Len(name))..b) : IsSpace(o[i])

\* C24: ClusterExists(name) returns true exactly when the listing command
\* succeeded and some line of its output is name with only white space
\* around it, so a line that merely holds name, or is a part of it, does
\* not count; it returns an error exactly when the listing command failed,
\* and then false; on empty output it returns false and no error.
C24_ExactTrimmedLineMatch ==
    listing.called =>
        /\ listing.exists <=>
              /\ listing.listOK
              /\ \E a \in 1..(Len(listing.output) + 1) :
                    \E b \in (a - 1)..Len(listing.output) :
                        /\ IsLine(listing.output, a, b)
                        /\ NameOnLine(listing.output, a, b, listing.name)
        /\ (listing.err # "") <=> ~listing.listOK
        /\ (listing.listOK /\ listing.output = <<>>) =>
              (~listing.exists /\ listing.err = "")

\* C24, its case: asked for "kargo", the listing holds "kargo2" and, on
\* another line, "kargo" between spaces: the cluster is found.
C24_Witness ==
    /\ listing.called
    /\ listing.name = clusterName
    /\ listing.listOK
    /\ listing.output = <<"k", "a", "r", "g", "o", "2", "\n",
                          " ", "k", "a", "r", "g", "o", " ">>
    /\ listing.exists
    /\ listing.err = ""

====
